---- MODULE Spec2Model ----
(***************************************************************************)
(* PDF knowledge assistant: configuration, the lazily loaded embedding     *)
(* adapter HfEmbedder, and the sequential start-up routine main            *)
(* (src/assistant.py), together with the settings record of src/config.py. *)
(*                                                                         *)
(* External libraries (SQLAlchemy, phi, sentence_transformers) are opaque: *)
(* each call into them either succeeds or raises, chosen with \E.  An      *)
(* embedding is represented by its length, the only thing the code reads   *)
(* of it (len(embedding)); a model handle by the ordinal of the            *)
(* construction that produced it.                                          *)
(***************************************************************************)
EXTENDS Integers, Sequences, FiniteSets, TLC

\* ---------------------------------------------------------------- bounds
\* documents the PDF reader yields to knowledge_base.load
MaxDocs == 2
\* run ids the storage reports for a user
MaxRuns == 2
\* calls of get_embedding_and_usage made by a direct caller of one instance
MaxCalls == 3

\* ---------------------------------------------------------------- values
None == "None"

SettingNames == {"DB_URL", "EMBEDDER_MODEL", "EMBEDDING_DIM", "COLLECTION_NAME", "TABLE_NAME"}

\* src/config.py: the defaults of the settings record
SettingsDefaults ==
    [DB_URL          |-> "postgresql+psycopg://ai:ai@localhost:5532/ai",
     EMBEDDER_MODEL  |-> "all-MiniLM-L6-v2",
     EMBEDDING_DIM   |-> 384,
     COLLECTION_NAME |-> "science_docs",
     TABLE_NAME      |-> "science_assistant"]

\* values a .env file / the environment may give to each setting; the
\* environment holds text, so the dimension is its decimal digits
EnvOverride ==
    [DB_URL          |-> "postgresql+psycopg://kb:kb@db:5432/kb",
     EMBEDDER_MODEL  |-> "all-mpnet-base-v2",
     EMBEDDING_DIM   |-> <<7, 6, 8>>,
     COLLECTION_NAME |-> "env_docs",
     TABLE_NAME      |-> "env_assistant"]

\* an environment: the settings it defines (its DOMAIN), each with its text
Environments ==
    { [n \in S |-> EnvOverride[n]] : S \in SUBSET SettingNames }

\* pydantic's coercion of a decimal string to an int field
RECURSIVE ParseInt(_)
ParseInt(digits) ==
    IF digits = <<>> THEN 0
    ELSE 10 * ParseInt(SubSeq(digits, 1, Len(digits) - 1)) + digits[Len(digits)]

\* src/config.py: Settings() -- a BaseSettings record: a field takes the
\* environment's value (coerced to the field's type) when the environment
\* defines it, else its default
Settings(env) ==
    [n \in SettingNames |->
        IF n \in DOMAIN env
        THEN IF n = "EMBEDDING_DIM" THEN ParseInt(env[n]) ELSE env[n]
        ELSE SettingsDefaults[n]]

\* src/assistant.py: AppConfig() -- a plain BaseModel constructed with no
\* arguments: every field takes its declared default, whatever the environment
AppConfig(env) ==
    [db_url          |-> "postgresql+psycopg://ai:ai@localhost:5532/ai",
     collection_name |-> "science_docs",
     embedder_model  |-> "all-MiniLM-L6-v2",
     embedder_dim    |-> 384,
     table_name      |-> "science_assistant"]

UserIds == {"default_user", "alice"}
RunIds == {"run-a", "run-b"}

\* lengths the external model's encode() may return
EncodeLengths == {383, 384, 768}

\* exception classes the external calls may raise; all derive from Exception
ExceptionClasses == {"SQLAlchemyError", "ValueError", "OSError", "RuntimeError"}

\* what the sentence_transformers library may raise
ModelErrors == {"OSError", "RuntimeError"}

\* outcomes of SentenceTransformer(model_name): None (a handle) or an exception
CtorOutcomes == {None} \cup ModelErrors

\* outcomes of model.encode(text): a vector of some length, or an exception
EncodeOutcomes ==
    {[raised |-> None, len |-> n] : n \in EncodeLengths}
        \cup {[raised |-> e, len |-> 0] : e \in ModelErrors}

\* isinstance(e, cls) for the two classes the handlers name
IsInstance(e, cls) ==
    CASE cls = "Exception"       -> e \in ExceptionClasses
      [] cls = "SQLAlchemyError" -> e = "SQLAlchemyError"
      [] OTHER                   -> e = cls

VARIABLES
    environ,        \* os.environ after load_dotenv()
    config,         \* module-level config = AppConfig()
    new_session,    \* CLI flag
    user_id,        \* CLI flag
    pc,             \* position of the script
    exit_status,    \* <<>> while running, else <<status>> of the ended process
    exc,            \* class of the exception that left main uncaught, or None
    conn,           \* "none" | "open" | "closed": the connection of setup_database
    opened,         \* number of connections opened by engine.connect()
    calls,          \* external operations attempted, in order
    started,        \* steps of main started, in order
    finished,       \* steps of main completed, in order
    vector_db,      \* <<>> or <<the PgVector2 handle's constructor arguments>>
    model_name,     \* HfEmbedder.model_name of the instance, or None before construction
    _model,         \* HfEmbedder._model: 0 is None, else the handle
    built,          \* number of SentenceTransformer handles constructed
    results,        \* outcome of every call of get_embedding_and_usage
    stored,         \* embeddings handed to the vector store by load
    knowledge_base, \* <<>> or <<the PDFUrlKnowledgeBase>>
    storage,        \* <<>> or <<the PgAssistantStorage's constructor arguments>>
    engine_url,     \* None or the URL given to sa.create_engine
    existing_runs,  \* <<>> or <<the list storage.get_all_run_ids returned>>
    run_id,         \* local run_id of main
    assistant,      \* <<>> or <<the Assistant's run_id / user_id arguments>>
    errors          \* messages passed to logger.error, in order

vars == <<environ, config, new_session, user_id, pc, exit_status, exc, conn, opened,
          calls, started, finished, vector_db, model_name, _model, built, results,
          stored, knowledge_base, storage, engine_url, existing_runs, run_id, assistant,
          errors>>

inputVars    == <<environ, config, new_session, user_id>>
embedderVars == <<model_name, _model, built, results>>
dbVars       == <<conn, opened, engine_url>>
handleVars   == <<vector_db, knowledge_base, storage, existing_runs, run_id, assistant>>

\* ------------------------------------------------------------ HfEmbedder
\* mutant: the property without its "is None" test: a handle per access
ModelProperty_eager(m, nbuilt, ctor) ==
    IF ctor = None
    THEN [model |-> nbuilt + 1, built |-> nbuilt + 1, raised |-> None]
    ELSE [model |-> 0, built |-> nbuilt, raised |-> ctor]

\* HfEmbedder.model: the lazily loaded handle.  m is self._model (0 is
\* None), nbuilt the handles constructed so far, ctor what
\* SentenceTransformer(model_name) would do.  The constructor runs only
\* when self._model is None; when it raises, self._model stays None.
ModelProperty(m, nbuilt, ctor) ==
    IF m = 0
    THEN IF ctor = None
         THEN [model |-> nbuilt + 1, built |-> nbuilt + 1, raised |-> None]
         ELSE [model |-> 0, built |-> nbuilt, raised |-> ctor]
    ELSE [model |-> m, built |-> nbuilt, raised |-> None]

\* mutant: the test written as "longer than", so a short vector passes
DimensionMismatch_longer(len, cfg) == len > cfg.embedder_dim

\* the test of line 78: len(embedding) != config.embedder_dim
DimensionMismatch(len, cfg) == len # cfg.embedder_dim

\* HfEmbedder.get_embedding_and_usage(text): the cached handle afterwards,
\* the exception raised (None when it returns), the embedding returned, the
\* usage record, and what it passed to logger.error.  Every exception is
\* logged by the handler of line 82 and raised again unchanged.
GetEmbeddingAndUsage(m, nbuilt, name, cfg, ctor, enc) ==
    LET h == ModelProperty(m, nbuilt, ctor) IN
    IF h.raised # None
    THEN [model |-> h.model, built |-> h.built, raised |-> h.raised,
          embedding |-> <<>>, usage |-> <<>>,
          errors |-> <<"Embedding generation failed">>]
    ELSE IF enc.raised # None
    THEN [model |-> h.model, built |-> h.built, raised |-> enc.raised,
          embedding |-> <<>>, usage |-> <<>>,
          errors |-> <<"Embedding generation failed">>]
    ELSE IF DimensionMismatch(enc.len, cfg)
    THEN [model |-> h.model, built |-> h.built, raised |-> "ValueError",
          embedding |-> <<>>, usage |-> <<>>,
          errors |-> <<"Embedding dimension mismatch", "Embedding generation failed">>]
    ELSE [model |-> h.model, built |-> h.built, raised |-> None,
          embedding |-> <<enc.len>>,
          usage |-> <<[model |-> name, total_tokens |-> 0]>>,
          errors |-> <<>>]

\* the record kept of one call: what the external model produced and what
\* the call did with it
CallRecord(r, m, ctor, enc) ==
    [had_model |-> m # 0,
     thrown    |-> IF r.model = 0 THEN ctor ELSE enc.raised,
     encoded   |-> IF r.model # 0 /\ enc.raised = None THEN <<enc.len>> ELSE <<>>,
     raised    |-> r.raised,
     embedding |-> r.embedding,
     model     |-> r.model]

\* ------------------------------------------------------ ways a run ends
\* an exception that no handler of main catches leaves main; the
\* interpreter prints the traceback and the process ends with status 1
Uncaught(e) == [exits |-> TRUE, exit |-> <<1>>, exc |-> e, errors |-> <<>>]

\* mutant: sys.exit() called without a status, which is status 0
SetupDatabaseExcept_status0(e) ==
    IF IsInstance(e, "SQLAlchemyError")
    THEN [exits |-> TRUE, exit |-> <<0>>, exc |-> None,
          errors |-> <<"Database setup failed">>]
    ELSE Uncaught(e)

\* mutant: the handler logs and returns, so main goes on without a database
SetupDatabaseExcept_returns(e) ==
    IF IsInstance(e, "SQLAlchemyError")
    THEN [exits |-> FALSE, exit |-> <<>>, exc |-> None,
          errors |-> <<"Database setup failed">>]
    ELSE Uncaught(e)

\* setup_database, lines 95-97: except SQLAlchemyError: log, sys.exit(1)
SetupDatabaseExcept(e) ==
    IF IsInstance(e, "SQLAlchemyError")
    THEN [exits |-> TRUE, exit |-> <<1>>, exc |-> None,
          errors |-> <<"Database setup failed">>]
    ELSE Uncaught(e)

\* mutant: the handler names SQLAlchemyError, as the one of setup_database does
KnowledgeBaseExcept_narrow(e) ==
    IF IsInstance(e, "SQLAlchemyError")
    THEN [exits |-> TRUE, exit |-> <<1>>, exc |-> None,
          errors |-> <<"Knowledge base creation failed">>]
    ELSE Uncaught(e)

\* mutant: the handler logs and returns None instead of exiting
KnowledgeBaseExcept_returns(e) ==
    IF IsInstance(e, "Exception")
    THEN [exits |-> FALSE, exit |-> <<>>, exc |-> None,
          errors |-> <<"Knowledge base creation failed">>]
    ELSE Uncaught(e)

\* create_knowledge_base, lines 119-121: except Exception: log, sys.exit(1)
KnowledgeBaseExcept(e) ==
    IF IsInstance(e, "Exception")
    THEN [exits |-> TRUE, exit |-> <<1>>, exc |-> None,
          errors |-> <<"Knowledge base creation failed">>]
    ELSE Uncaught(e)

\* an exception is raised after pre was logged and h is what its handler
\* does: the process ends with h.exit, or (a handler that returns) the
\* function returns and main goes on at resume
Raise(h, pre, resume) ==
    /\ errors' = errors \o pre \o h.errors
    /\ IF h.exits
       THEN /\ pc' = "exited"
            /\ exit_status' = h.exit
            /\ exc' = h.exc
       ELSE /\ pc' = resume
            /\ UNCHANGED <<exit_status, exc>>

\* mutant: the last run id of the list instead of the first
SelectRunId_last(new, runs) ==
    IF ~new
    THEN IF runs # <<>> THEN runs[Len(runs)] ELSE None
    ELSE None

\* lines 136-141: the run id the assistant is given
SelectRunId(new, runs) ==
    IF ~new
    THEN IF runs # <<>> THEN runs[1] ELSE None
    ELSE None

\* lists of run ids the storage may report
RunLists == UNION { [1..n -> RunIds] : n \in 0..MaxRuns }

\* ------------------------------------------------------------------ Init
\* state shared by both specifications: the module-level statements of
\* src/assistant.py have run (load_dotenv, config = AppConfig())
InitCommon ==
    /\ environ \in Environments
    /\ config = AppConfig(environ)
    /\ exit_status = <<>>
    /\ exc = None
    /\ conn = "none"
    /\ opened = 0
    /\ calls = <<>>
    /\ started = <<>>
    /\ finished = <<>>
    /\ vector_db = <<>>
    /\ _model = 0
    /\ built = 0
    /\ results = <<>>
    /\ stored = <<>>
    /\ knowledge_base = <<>>
    /\ storage = <<>>
    /\ engine_url = None
    /\ existing_runs = <<>>
    /\ run_id = None
    /\ assistant = <<>>
    /\ errors = <<>>

\* typer.run(main): main is entered with the two CLI flags
Init ==
    /\ InitCommon
    /\ new_session \in BOOLEAN
    /\ user_id \in UserIds
    /\ model_name = None
    /\ pc = "setup_database"

\* -------------------------------------------------------- setup_database
\* line 90: engine = sa.create_engine(config.db_url)
CreateEngine ==
    /\ pc = "setup_database"
    /\ started' = Append(started, "setup_database")
    /\ calls' = Append(calls, "create_engine")
    /\ engine_url' = config.db_url
    /\ \/ /\ pc' = "connect"
          /\ UNCHANGED <<exit_status, exc, errors>>
       \/ \E e \in {"SQLAlchemyError", "OSError"} : Raise(SetupDatabaseExcept(e), <<>>, "create_vector_db")
    /\ UNCHANGED <<inputVars, conn, opened, finished, embedderVars, stored, handleVars>>

\* line 91: with engine.connect() as conn
Connect ==
    /\ pc = "connect"
    /\ calls' = Append(calls, "connect")
    /\ \/ /\ pc' = "execute"
          /\ conn' = "open"
          /\ opened' = opened + 1
          /\ UNCHANGED <<exit_status, exc, errors>>
       \/ /\ \E e \in {"SQLAlchemyError", "OSError"} : Raise(SetupDatabaseExcept(e), <<>>, "create_vector_db")
          /\ UNCHANGED <<conn, opened>>
    /\ UNCHANGED <<inputVars, engine_url, started, finished, embedderVars, stored, handleVars>>

\* mutant: the connection is not scoped by with: a failing execute leaves it open
Execute_leak ==
    /\ pc = "execute"
    /\ calls' = Append(calls, "execute")
    /\ \/ /\ pc' = "commit"
          /\ UNCHANGED <<exit_status, exc, errors>>
       \/ \E e \in {"SQLAlchemyError", "OSError"} :
            Raise(SetupDatabaseExcept(e), <<>>, "create_vector_db")
    /\ UNCHANGED <<inputVars, conn, opened, engine_url, started, finished, embedderVars,
                   stored, handleVars>>

\* line 92: conn.execute(CREATE EXTENSION IF NOT EXISTS vector); when it
\* raises, the with statement closes the connection before the handler runs
Execute ==
    /\ pc = "execute"
    /\ \/ /\ pc' = "commit"
          /\ calls' = Append(calls, "execute")
          /\ UNCHANGED <<conn, exit_status, exc, errors>>
       \/ /\ \E e \in {"SQLAlchemyError", "OSError"} : Raise(SetupDatabaseExcept(e), <<>>, "create_vector_db")
          /\ calls' = calls \o <<"execute", "close">>
          /\ conn' = "closed"
    /\ UNCHANGED <<inputVars, opened, engine_url, started, finished, embedderVars, stored,
                   handleVars>>

\* lines 93-94: conn.commit(), then the with statement closes the
\* connection, on success and on failure alike
Commit ==
    /\ pc = "commit"
    /\ calls' = calls \o <<"commit", "close">>
    /\ conn' = "closed"
    /\ \/ /\ pc' = "create_vector_db"
          /\ finished' = Append(finished, "setup_database")
          /\ UNCHANGED <<exit_status, exc, errors>>
       \/ /\ \E e \in {"SQLAlchemyError", "OSError"} : Raise(SetupDatabaseExcept(e), <<>>, "create_vector_db")
          /\ UNCHANGED finished
    /\ UNCHANGED <<inputVars, opened, engine_url, started, embedderVars, stored, handleVars>>

\* ------------------------------------------------------ create_vector_db
\* mutant: the dimension written as a literal for another model
PgVector2Args_literal(cfg) ==
    [collection |-> cfg.collection_name,
     db_url     |-> cfg.db_url,
     embedder   |-> cfg.embedder_model,
     dim        |-> 768]

\* lines 101-106: the keyword arguments of PgVector2(...)
PgVector2Args(cfg) ==
    [collection |-> cfg.collection_name,
     db_url     |-> cfg.db_url,
     embedder   |-> cfg.embedder_model,
     dim        |-> cfg.embedder_dim]

\* lines 99-106 (main, line 128): HfEmbedder() is constructed, its
\* model_name the class default config.embedder_model and its _model None;
\* then PgVector2(collection, db_url, embedder, dim).  No handler surrounds
\* the call.
CreateVectorDb ==
    /\ pc = "create_vector_db"
    /\ started' = Append(started, "create_vector_db")
    /\ calls' = Append(calls, "PgVector2")
    /\ model_name' = config.embedder_model
    /\ _model' = 0
    /\ \/ /\ vector_db' = <<PgVector2Args(config)>>
          /\ finished' = Append(finished, "create_vector_db")
          /\ pc' = "create_knowledge_base"
          /\ UNCHANGED <<exit_status, exc, errors>>
       \/ /\ \E e \in {"SQLAlchemyError", "OSError"} : Raise(Uncaught(e), <<>>, pc)
          /\ UNCHANGED <<vector_db, finished>>
    /\ UNCHANGED <<inputVars, dbVars, built, results, stored, knowledge_base, storage,
                   existing_runs, run_id, assistant>>

\* ------------------------------------------------- create_knowledge_base
\* lines 110-117: PDFUrlKnowledgeBase(urls, vector_db), then load begins
CreateKnowledgeBase ==
    /\ pc = "create_knowledge_base"
    /\ started' = Append(started, "create_knowledge_base")
    /\ \/ /\ calls' = calls \o <<"PDFUrlKnowledgeBase", "load">>
          /\ pc' = "load"
          /\ UNCHANGED <<exit_status, exc, errors>>
       \/ /\ calls' = Append(calls, "PDFUrlKnowledgeBase")
          /\ \E e \in {"ValueError", "OSError"} : Raise(KnowledgeBaseExcept(e), <<>>, "storage")
    /\ UNCHANGED <<inputVars, dbVars, finished, embedderVars, stored, handleVars>>

\* line 117, inside knowledge_base.load: the vector store embeds one more
\* document with its embedder and keeps the vector; an exception of the
\* embedder leaves load and reaches the handler of create_knowledge_base
LoadDocument ==
    /\ pc = "load"
    /\ Len(stored) < MaxDocs
    /\ \E ctor \in CtorOutcomes, enc \in EncodeOutcomes :
         LET r == GetEmbeddingAndUsage(_model, built, model_name, config, ctor, enc) IN
         /\ _model' = r.model
         /\ built' = r.built
         /\ results' = Append(results, CallRecord(r, _model, ctor, enc))
         /\ IF r.raised = None
            THEN /\ stored' = stored \o r.embedding
                 /\ errors' = errors \o r.errors
                 /\ UNCHANGED <<pc, exit_status, exc>>
            ELSE /\ Raise(KnowledgeBaseExcept(r.raised), r.errors, "storage")
                 /\ UNCHANGED stored
    /\ UNCHANGED <<inputVars, dbVars, calls, started, finished, model_name, handleVars>>

\* line 117: load raises for a reason of its own (download, parsing, database)
LoadRaises ==
    /\ pc = "load"
    /\ \E e \in {"SQLAlchemyError", "OSError"} : Raise(KnowledgeBaseExcept(e), <<>>, "storage")
    /\ UNCHANGED <<inputVars, dbVars, calls, started, finished, embedderVars, stored,
                   handleVars>>

\* lines 117-118 and main line 129: load returns, the knowledge base is returned
LoadReturns ==
    /\ pc = "load"
    /\ knowledge_base' = <<[vector_db |-> vector_db, documents |-> Len(stored)]>>
    /\ finished' = Append(finished, "create_knowledge_base")
    /\ pc' = "storage"
    /\ UNCHANGED <<inputVars, dbVars, calls, started, embedderVars, stored, vector_db,
                   storage, existing_runs, run_id, assistant, exit_status, exc, errors>>

\* ------------------------------------------------------------- the rest of main
\* lines 130-133: PgAssistantStorage(table_name, db_url); no handler
CreateStorage ==
    /\ pc = "storage"
    /\ started' = Append(started, "PgAssistantStorage")
    /\ calls' = Append(calls, "PgAssistantStorage")
    /\ \/ /\ storage' = <<[table_name |-> config.table_name, db_url |-> config.db_url]>>
          /\ finished' = Append(finished, "PgAssistantStorage")
          /\ pc' = "session"
          /\ UNCHANGED <<exit_status, exc, errors>>
       \/ /\ \E e \in {"SQLAlchemyError", "OSError"} : Raise(Uncaught(e), <<>>, pc)
          /\ UNCHANGED <<storage, finished>>
    /\ UNCHANGED <<inputVars, dbVars, embedderVars, stored, vector_db, knowledge_base,
                   existing_runs, run_id, assistant>>

\* lines 136-141: run_id = None; unless new_session, the storage is asked for
\* the user's run ids and the first one, if any, is taken; no handler
ManageSession ==
    /\ pc = "session"
    /\ started' = Append(started, "session")
    /\ IF ~new_session
       THEN /\ calls' = Append(calls, "get_all_run_ids")
            /\ \/ \E runs \in RunLists :
                    /\ existing_runs' = <<runs>>
                    /\ run_id' = SelectRunId(new_session, runs)
                    /\ pc' = "assistant"
                    /\ UNCHANGED <<exit_status, exc, errors>>
               \/ /\ \E e \in {"SQLAlchemyError", "OSError"} : Raise(Uncaught(e), <<>>, pc)
                  /\ UNCHANGED <<existing_runs, run_id>>
       ELSE /\ run_id' = SelectRunId(new_session, <<>>)
            /\ pc' = "assistant"
            /\ UNCHANGED <<calls, existing_runs, exit_status, exc, errors>>
    /\ UNCHANGED <<inputVars, dbVars, finished, embedderVars, stored, vector_db,
                   knowledge_base, storage, assistant>>

\* lines 144-152: Assistant(run_id, user_id, knowledge_base, storage, ...)
CreateAssistant ==
    /\ pc = "assistant"
    /\ calls' = Append(calls, "Assistant")
    /\ \/ /\ assistant' = <<[run_id |-> run_id, user_id |-> user_id,
                              knowledge_base |-> knowledge_base,
                              storage |-> storage]>>
          /\ finished' = Append(finished, "session")
          /\ pc' = "cli_app"
          /\ UNCHANGED <<exit_status, exc, errors>>
       \/ /\ \E e \in {"ValueError", "OSError"} : Raise(Uncaught(e), <<>>, pc)
          /\ UNCHANGED <<assistant, finished>>
    /\ UNCHANGED <<inputVars, dbVars, started, embedderVars, stored, vector_db,
                   knowledge_base, storage, existing_runs, run_id>>

\* line 156: assistant.cli_app(markdown=True) takes over
CliApp ==
    /\ pc = "cli_app"
    /\ started' = Append(started, "cli_app")
    /\ calls' = Append(calls, "cli_app")
    /\ pc' = "in_cli"
    /\ UNCHANGED <<inputVars, dbVars, finished, embedderVars, stored, handleVars,
                   exit_status, exc, errors>>

\* the interactive loop returns and main with it (status 0), or it raises
CliEnds ==
    /\ pc = "in_cli"
    /\ \/ /\ finished' = Append(finished, "cli_app")
          /\ pc' = "exited"
          /\ exit_status' = <<0>>
          /\ UNCHANGED <<exc, errors>>
       \/ /\ \E e \in {"RuntimeError", "OSError"} : Raise(Uncaught(e), <<>>, pc)
          /\ UNCHANGED finished
    /\ UNCHANGED <<inputVars, dbVars, calls, started, embedderVars, stored, handleVars>>

Next ==
    \/ CreateEngine
    \/ Connect
    \/ Execute
    \/ Commit
    \/ CreateVectorDb
    \/ CreateKnowledgeBase
    \/ LoadDocument
    \/ LoadRaises
    \/ LoadReturns
    \/ CreateStorage
    \/ ManageSession
    \/ CreateAssistant
    \/ CliApp
    \/ CliEnds

Spec == Init /\ [][Next]_vars

\* ------------------------------------------- one embedder, called directly
\* an HfEmbedder instance exists and a caller invokes it any number of times,
\* catching what it raises
InitEmbedder ==
    /\ InitCommon
    /\ new_session = FALSE
    /\ user_id = "default_user"
    /\ model_name = config.embedder_model
    /\ pc = "caller"

\* the caller calls get_embedding_and_usage(text) once more
CallEmbedder ==
    /\ pc = "caller"
    /\ Len(results) < MaxCalls
    /\ \E ctor \in CtorOutcomes, enc \in EncodeOutcomes :
         LET r == GetEmbeddingAndUsage(_model, built, model_name, config, ctor, enc) IN
         /\ _model' = r.model
         /\ built' = r.built
         /\ results' = Append(results, CallRecord(r, _model, ctor, enc))
         /\ errors' = errors \o r.errors
    /\ UNCHANGED <<inputVars, dbVars, pc, exit_status, exc, calls, started, finished,
                   model_name, stored, handleVars>>

NextEmbedder == CallEmbedder

SpecEmbedder == InitEmbedder /\ [][NextEmbedder]_vars

\* ---------------------------------------------------------------- helpers
InSeq(x, seq) == \E i \in 1..Len(seq) : seq[i] = x
Count(x, seq) == Cardinality({i \in 1..Len(seq) : seq[i] = x})
IsPrefix(a, b) == Len(a) <= Len(b) /\ SubSeq(b, 1, Len(a)) = a
Last(seq) == seq[Len(seq)]

\* the steps of main, in the order of its text
MainOrder == <<"setup_database", "create_vector_db", "create_knowledge_base",
               "PgAssistantStorage", "session", "cli_app">>

SetupPcs == {"setup_database", "connect", "execute", "commit"}

\* the run ended inside setup_database / inside create_knowledge_base
SetupFailed == pc = "exited" /\ started = <<"setup_database">> /\ finished = <<>>
KbFailed ==
    /\ pc = "exited"
    /\ Last(started) = "create_knowledge_base"
    /\ ~InSeq("create_knowledge_base", finished)

\* ------------------------------------------------------------------- C1
\* C1: every call of get_embedding_and_usage for which the external model
\* produced a vector whose length is not config.embedder_dim raised and
\* returned no embedding; every embedding a call returned has exactly
\* config.embedder_dim elements.
C1_WrongLengthRaises ==
    \A i \in 1..Len(results) :
        /\ (results[i].encoded # <<>> /\ results[i].encoded[1] # config.embedder_dim)
              => (results[i].raised = "ValueError" /\ results[i].embedding = <<>>)
        /\ results[i].raised = None
              => (results[i].embedding # <<>>
                    /\ results[i].embedding[1] = config.embedder_dim)
        /\ results[i].raised # None => results[i].embedding = <<>>

C1_Witness ==
    /\ \E i \in 1..Len(results) :
          results[i].encoded = <<383>> /\ results[i].raised = "ValueError"
    /\ \E i \in 1..Len(results) : results[i].raised = None

\* ------------------------------------------------------------------- C2
\* C2: a failure of create_engine, connect, execute or commit inside
\* setup_database ends the process with exit status 1, and no later step of
\* main (vector store, knowledge base, storage, session, interactive loop)
\* is executed: the ended process takes no further step.
C2_State ==
    SetupFailed =>
        /\ exit_status = <<1>>
        /\ vector_db = <<>> /\ knowledge_base = <<>> /\ storage = <<>>
        /\ existing_runs = <<>> /\ assistant = <<>> /\ results = <<>>
        /\ \A i \in 1..Len(calls) :
              calls[i] \in {"create_engine", "connect", "execute", "commit", "close"}

C2_Step ==
    /\ (pc \in SetupPcs /\ pc' \notin SetupPcs /\ finished' = finished)
          => (pc' = "exited" /\ exit_status' = <<1>>)
    /\ pc # "exited"

C2_SetupFailureExits == [][C2_Step]_vars /\ []C2_State

C2_Witness ==
    /\ SetupFailed
    /\ errors = <<"Database setup failed">>
    /\ calls = <<"create_engine", "connect">>

\* ------------------------------------------------------------------- C3
\* C3: a failure while constructing or loading the knowledge base, an
\* exception of the embedder included, is caught and logged by
\* create_knowledge_base and ends the process with status 1; a failing
\* get_embedding_and_usage logs and raises to its caller the very exception
\* it caught (ValueError for a mismatch), and the exit is the caller's.
C3_KbFailureExits ==
    /\ KbFailed =>
          /\ exit_status = <<1>>
          /\ exc = None
          /\ errors # <<>> /\ Last(errors) = "Knowledge base creation failed"
    /\ \A i \in 1..Len(results) :
          results[i].raised # None =>
              /\ results[i].thrown # None => results[i].raised = results[i].thrown
              /\ results[i].thrown = None => results[i].raised = "ValueError"
              /\ i = Len(results)
              /\ KbFailed
              /\ Len(errors) >= 2
              /\ SubSeq(errors, Len(errors) - 1, Len(errors))
                    = <<"Embedding generation failed", "Knowledge base creation failed">>

C3_Witness ==
    /\ KbFailed
    /\ results # <<>>
    /\ Last(results).raised = "ValueError"
    /\ errors = <<"Embedding dimension mismatch", "Embedding generation failed",
                  "Knowledge base creation failed">>

\* ------------------------------------------------------------------- C4
\* C4: the steps of main start in the fixed order, a step starts only when
\* every step before it has completed, and the interactive loop is entered
\* only after the five steps before it completed.
C4_FixedOrder ==
    /\ IsPrefix(started, MainOrder)
    /\ IsPrefix(finished, started)
    /\ Len(started) <= Len(finished) + 1
    /\ InSeq("cli_app", calls) =>
          /\ IsPrefix(SubSeq(MainOrder, 1, 5), finished)
          /\ vector_db # <<>> /\ knowledge_base # <<>> /\ storage # <<>>
          /\ assistant # <<>>

C4_Witness ==
    /\ pc = "in_cli"
    /\ started = MainOrder
    /\ finished = SubSeq(MainOrder, 1, 5)

\* ------------------------------------------------------------------- C5
\* C5: the database URL, model name, dimension, collection name and table
\* name given to create_engine, PgVector2, HfEmbedder and PgAssistantStorage
\* are the values of the settings record loaded from the environment.
C5_EnvironmentUsed ==
    LET settings == Settings(environ) IN
    /\ engine_url # None => engine_url = settings.DB_URL
    /\ model_name # None => model_name = settings.EMBEDDER_MODEL
    /\ vector_db # <<>> =>
          /\ vector_db[1].collection = settings.COLLECTION_NAME
          /\ vector_db[1].db_url = settings.DB_URL
          /\ vector_db[1].dim = settings.EMBEDDING_DIM
    /\ storage # <<>> =>
          /\ storage[1].table_name = settings.TABLE_NAME
          /\ storage[1].db_url = settings.DB_URL

\* ------------------------------------------------------------------- C6
\* C6: the assistant gets the first run id the storage reported when
\* new_session is false and the list is not empty, and no run id when
\* new_session is true or the list is empty; with new_session true the
\* storage is never asked for run ids.
C6_ResumeOrCreate ==
    /\ new_session => (~InSeq("get_all_run_ids", calls) /\ existing_runs = <<>>)
    /\ assistant # <<>> =>
          /\ (~new_session /\ existing_runs # <<>> /\ existing_runs[1] # <<>>)
                => assistant[1].run_id = existing_runs[1][1]
          /\ (new_session \/ existing_runs = <<>> \/ existing_runs[1] = <<>>)
                => assistant[1].run_id = None
          /\ ~new_session => Count("get_all_run_ids", calls) = 1

C6_Witness ==
    /\ assistant # <<>>
    /\ ~new_session
    /\ existing_runs = << <<"run-b", "run-a">> >>
    /\ assistant[1].run_id = "run-b"

\* ------------------------------------------------------------------- C7
\* C7: in one run every external operation is attempted at most once, and
\* once database setup or knowledge-base loading has failed (or an
\* exception has left main) the run is over: nothing more is attempted.
ExternalOps == {"create_engine", "connect", "execute", "commit", "close", "PgVector2",
                "PDFUrlKnowledgeBase", "load", "PgAssistantStorage", "get_all_run_ids",
                "Assistant", "cli_app"}

C7_State ==
    /\ \A op \in ExternalOps : Count(op, calls) <= 1
    /\ \A i \in 1..Len(calls) : calls[i] \in ExternalOps
    /\ (\/ exc # None
        \/ InSeq("Database setup failed", errors)
        \/ InSeq("Knowledge base creation failed", errors)) => pc = "exited"

C7_NoRetry == []C7_State /\ [][pc = "exited" => calls' = calls]_vars

C7_Witness ==
    /\ KbFailed
    /\ Len(stored) = 1
    /\ calls = <<"create_engine", "connect", "execute", "commit", "close", "PgVector2",
                 "PDFUrlKnowledgeBase", "load">>

\* ------------------------------------------------------------------- C8
\* C8: setup_database opens at most one connection, executes before it
\* commits, and the connection is closed whenever control is outside the
\* with block, also when execute or commit failed and the process exited.
C8_ScopedConnection ==
    /\ opened <= 1
    /\ Count("connect", calls) <= 1
    /\ conn = "open" => pc \in {"execute", "commit"}
    /\ conn = "none" => opened = 0
    /\ (opened = 1 /\ pc \notin {"execute", "commit"})
          => (conn = "closed" /\ Count("close", calls) = 1)
    /\ pc = "exited" => conn # "open"
    /\ \A i, j \in 1..Len(calls) :
          /\ (calls[i] = "commit" /\ calls[j] = "execute") => j < i
          /\ (calls[i] = "execute" /\ calls[j] = "connect") => j < i
          /\ (calls[i] = "close" /\ calls[j] \in {"connect", "execute", "commit"}) => j < i
    /\ InSeq("commit", calls) => InSeq("execute", calls)

C8_Witness ==
    /\ pc = "exited"
    /\ exit_status = <<1>>
    /\ conn = "closed"
    /\ calls = <<"create_engine", "connect", "execute", "close">>

\* ------------------------------------------------------------------- C9
\* C9: for one HfEmbedder, no model handle exists before the first call, at
\* most one handle is ever constructed, every call after the one that
\* constructed it works with that same handle, and a call that fails in
\* encode or on the dimension test leaves the handle cached.
C9_Memoized ==
    /\ results = <<>> => (_model = 0 /\ built = 0)
    /\ built <= 1
    /\ (_model # 0) <=> (built = 1)
    /\ results # <<>> => _model = Last(results).model
    /\ \A i, j \in 1..Len(results) :
          (i <= j /\ results[i].model # 0) => results[j].model = results[i].model
    /\ \A i \in 1..Len(results) :
          (results[i].had_model /\ results[i].raised # None) => results[i].model # 0

C9_Witness ==
    /\ Len(results) = 3
    /\ results[1].model = 0
    /\ results[2].raised = "ValueError"
    /\ results[3].raised = None
    /\ results[3].model = results[2].model

\* ------------------------------------------------------------------ C10
\* C10: the dimension declared to the vector store is config.embedder_dim,
\* the value the embedder validates against, config never changes, and every
\* vector handed to the vector store has the store's declared dimension.
C10_State ==
    /\ vector_db # <<>> => vector_db[1].dim = config.embedder_dim
    /\ stored # <<>> =>
          /\ vector_db # <<>>
          /\ \A i \in 1..Len(stored) : stored[i] = vector_db[1].dim

C10_DimensionConsistent == []C10_State /\ [][config' = config]_vars

C10_Witness ==
    /\ Len(stored) >= 2
    /\ knowledge_base # <<>>

====
